---- MODULE Spec2Model ----
(***************************************************************************)
(* Operational state tracker, backup and evidence lifecycle of             *)
(* backend/main.py.  The handlers are plain `def` functions, which FastAPI *)
(* runs on a thread pool: every statement that reads or writes the shared  *)
(* `state` dict, the backup directory or the evidence directory is one     *)
(* step of the thread that runs the handler, and steps of different        *)
(* threads interleave freely (time.sleep is a point where they do).        *)
(***************************************************************************)
EXTENDS Integers, Sequences, FiniteSets, TLC

\* ---------------------------------------------------------------- bounds
NThreads == 2        \* request threads that run handlers at the same time
MaxOps == 3          \* requests accepted in a concurrent run (Spec)
MaxSeqOps == 7       \* requests accepted in a one-at-a-time run (SeqSpec)
MaxFileOps == 3      \* requests accepted in a backup or evidence run
MaxTime == 1         \* last second int(time.time()) reaches
HealJitter == 1      \* ms by which a measured heal may exceed its sleeps
MaxFaculties == 2    \* faculties in a catalog
MaxDepts == 2        \* departments in a catalog
MaxCatalogReads == 2 \* times CATALOG_PATH is read in a run
MaxFrameOps == 3     \* requests accepted in a run of all handlers (FrameSpec)
MaxRaceOps == 2      \* fails and heals accepted in a run of HealRaceSpec

\* ---------------------------------------------------- program constants
MaxIncidents == 5        \* `if len(state["incidents"]) > 5`
RestartMs == 12800       \* "duration_ms": 12800
MinHealMs == 2000        \* time.sleep(1) twice, in ms
MinRestartMs == 3000     \* time.sleep(2) and time.sleep(1) of real_heal, in ms
ArchiveSize == 1         \* size of a written tar.gz: some number > 0
NoFile == -1             \* a path that does not exist / file: None

Threads == 1..NThreads
Seconds == 0..MaxTime
HealDurations == MinHealMs..(MinHealMs + HealJitter)

VARIABLES
    system_status,   \* state["system_status"]
    last_incident,   \* state["last_incident"]
    workflows,       \* state["workflows"][i]["status"], i = 1..4
    incidents,       \* state["incidents"], most recent first
    last_backup,     \* state["last_backup"]
    now,             \* int(time.time())
    backups,         \* BACKUP_DIR: file name token -> size, NoFile if absent
    evidence,        \* EVIDENCE_DIR: pack token -> content written, or NoPack
    pc,              \* per thread: the statement it is about to run
    loc,             \* per thread: the handler's local variables
    opCount,         \* requests accepted so far
    everBackedUp,    \* history: some run_backup has written last_backup
    packCalls,       \* history: pack token -> build calls that returned it
    backupCalls,     \* history: file name token -> run_backup calls that wrote it
    catalogFile,     \* what CATALOG_PATH holds on disk
    catalog_cache,   \* the global catalog_cache
    answer,          \* the last catalog request and what it was answered
    fileReads,       \* history: times CATALOG_PATH was opened and read
    firstLoad        \* history: how the first load_catalog() call ended

vars == <<system_status, last_incident, workflows, incidents, last_backup,
          now, backups, evidence, pc, loc, opCount, everBackedUp, packCalls,
          backupCalls, catalogFile, catalog_cache, answer, fileReads, firstLoad>>

tracker == <<system_status, last_incident, workflows, incidents>>
files == <<now, backups, evidence, packCalls, backupCalls>>
catalog == <<catalogFile, catalog_cache, answer, fileReads, firstLoad>>

\* ------------------------------------------------------------ the state
InitWorkflows == <<"Running", "Running", "Idle", "Running">>
NoBackup == [ts |-> NoFile, file |-> NoFile, size |-> 0]
NoPack == [ts |-> NoFile, status |-> "None", incidents |-> 0, backup |-> NoFile]

\* The whole of `state`, as one value.
StateDict ==
    [system_status |-> system_status, last_incident |-> last_incident,
     workflows |-> workflows, incidents |-> incidents, last_backup |-> last_backup]

\* The part of `state` that fail and heal write.
TrackerDict ==
    [system_status |-> system_status, last_incident |-> last_incident,
     workflows |-> workflows, incidents |-> incidents]

\* A handler's locals before it has assigned any.
NoLocals ==
    [pre |-> <<>>, req |-> 0, inc |-> 0, i |-> 1, out |-> <<>>, res |-> "None",
     agents |-> "None", backup |-> "None", system_state |-> "None",
     last |-> "None", lb |-> NoBackup, file |-> NoFile, size |-> 0,
     ts |-> NoFile, arg |-> NoFile, content |-> NoPack, over |-> FALSE]

\* ------------------------------------------------------- incident records
\* A record is a Python dict; `id` is its identity (the object a reference
\* names), so that "the same record" can be told from an equal one.
LiveIds == {incidents[k].id : k \in 1..Len(incidents)} \cup {loc[t].inc : t \in Threads}
FreshId == CHOOSE n \in 1..(MaxIncidents + 2 * NThreads + 2) : n \notin LiveIds /\ \A m \in 1..(n-1) : m \in LiveIds

LatencyIncident(id, duration) ==
    [id |-> id, type |-> "Latency Spike", action |-> "Auto-Scale + Cache Flush",
     result |-> "Resolved", severity |-> "HIGH", duration_ms |-> duration]

FailureIncident(id) ==
    [id |-> id, type |-> "api_failure_demo", action |-> "restart_api",
     result |-> "Pending", severity |-> "HIGH", duration_ms |-> 0]

ManualIncident(id) ==
    [id |-> id, type |-> "api_restart_manual", action |-> "restart_api",
     result |-> "Recovered", severity |-> "HIGH", duration_ms |-> RestartMs]

\* list.insert(0, x)
Insert0(log, x) == <<x>> \o log

\* list.pop(): removes the last element
Pop(log) == SubSeq(log, 1, Len(log) - 1)

\* `len(state["incidents"]) > 5`
OverCap(log) == Len(log) > MaxIncidents

\* inc[field] = value through a reference: the object changes wherever the
\* list holds it, and the list is untouched when it holds it no more.
SetField(log, id, field, value) ==
    [k \in 1..Len(log) |-> IF log[k].id = id THEN [log[k] EXCEPT ![field] = value] ELSE log[k]]

\* (mutant) the match without its test of the result
IsAnyFailure(inc) == inc.type = "api_failure_demo"

\* `inc["type"] == "api_failure_demo" and inc["result"] == "Pending"`
IsPendingFailure(inc) == inc.type = "api_failure_demo" /\ inc.result = "Pending"

\* ------------------------------------------------------------ plumbing
Idle(t) == pc[t] = "idle"
AllIdle == \A t \in Threads : Idle(t)

Goto(t, label) == pc' = [pc EXCEPT ![t] = label]
SetLoc(t, field, value) == loc' = [loc EXCEPT ![t][field] = value]

\* Some fail has run its last statement and not yet been answered.
FailComplete == \E f \in Threads : pc[f] \in {"sf_done", "rf_done"}

\* The handlers, each with the label of its first statement.
FirstLabel(o) ==
    CASE o = "simulate_fail" -> "sf_status"
      [] o = "self_heal" -> "sh_healing"
      [] o = "real_fail" -> "rf_status"
      [] o = "real_heal" -> "rh_healing"
      [] o = "get_system_status" -> "ss_agents"
      [] o = "get_incidents" -> "gi_return"
      [] o = "run_backup" -> "rb_name"
      [] o = "verify_backup" -> "vb_read"
      [] o = "build_evidence_pack" -> "ev_name"
      [] o = "download_evidence" -> "dl_check"
      [] o = "get_health" -> "gh_read"
      [] o = "get_backup_status" -> "bs_read"
      [] o = "get_orchestrator_status" -> "os_read"

TrackerOps == {"simulate_fail", "self_heal", "real_fail", "real_heal",
               "get_system_status", "get_incidents"}
BackupOps == {"run_backup", "verify_backup"}
EvidenceOps == {"build_evidence_pack", "download_evidence"}
ReadOps == {"get_health", "get_backup_status", "get_orchestrator_status"}
Ops == TrackerOps \cup BackupOps \cup EvidenceOps \cup ReadOps

\* The route table: both self_heal and real_heal are registered for
\* POST /api/selfheal/run; the router serves the first one registered.
ServedHeal == "self_heal"

\* A request is accepted and dispatched to thread t, which will run handler o
\* (with query parameter `arg` for download_evidence).  `pre` remembers the
\* health, summary, workflows and log the request found; `req` numbers the
\* build_evidence_pack calls, as their microsecond timestamps do.
Begin(t, o, arg, limit) ==
    /\ Idle(t)
    /\ \A u \in 1..(t-1) : ~Idle(u)
    /\ opCount < limit
    /\ opCount' = opCount + 1
    /\ pc' = [pc EXCEPT ![t] = FirstLabel(o)]
    /\ loc' = [loc EXCEPT ![t] = [NoLocals EXCEPT !.pre = TrackerDict, !.arg = arg,
                                               !.req = IF o = "build_evidence_pack" THEN opCount + 1 ELSE 0]]
    /\ UNCHANGED <<tracker, last_backup, files, everBackedUp, catalog>>

\* The handler has returned and its response is sent.
Return(t) ==
    /\ pc[t] \in {"sf_done", "sh_done", "rf_done", "rh_done", "ss_done", "gi_done",
                  "rb_done", "rb_error", "vb_done", "ev_done", "dl_done",
                  "gh_done", "bs_done", "os_done"}
    /\ pc' = [pc EXCEPT ![t] = "idle"]
    /\ loc' = [loc EXCEPT ![t] = NoLocals]
    /\ UNCHANGED <<tracker, last_backup, files, opCount, everBackedUp, catalog>>

\* ------------------------------------------------- simulate_fail (332-338)
SimFailStatus(t) ==
    /\ pc[t] = "sf_status"
    /\ system_status' = "DEGRADED"
    /\ Goto(t, "sf_last")
    /\ UNCHANGED <<last_incident, workflows, incidents, last_backup, files, loc, opCount, everBackedUp, catalog>>

SimFailLast(t) ==
    /\ pc[t] = "sf_last"
    /\ last_incident' = "API Latency Spike detected"
    /\ Goto(t, "sf_agent")
    /\ UNCHANGED <<system_status, workflows, incidents, last_backup, files, loc, opCount, everBackedUp, catalog>>

\* (mutant) a fail that marks every workflow as retrying
SimFailAllAgents(t) ==
    /\ pc[t] = "sf_agent"
    /\ workflows' = [i \in 1..Len(workflows) |-> "Retrying..."]
    /\ Goto(t, "sf_done")
    /\ UNCHANGED <<system_status, last_incident, incidents, last_backup, files, loc, opCount, everBackedUp, catalog>>

SimFailAgent(t) ==
    /\ pc[t] = "sf_agent"
    /\ workflows' = [workflows EXCEPT ![1] = "Retrying..."]
    /\ Goto(t, "sf_done")
    /\ UNCHANGED <<system_status, last_incident, incidents, last_backup, files, loc, opCount, everBackedUp, catalog>>

\* ----------------------------------------------------- self_heal (340-368)
\* start = time.time(); time.sleep(1); state["system_status"] = "HEALING"
SelfHealHealing(t) ==
    /\ pc[t] = "sh_healing"
    /\ system_status' = "HEALING"
    /\ Goto(t, "sh_ok")
    /\ UNCHANGED <<last_incident, workflows, incidents, last_backup, files, loc, opCount, everBackedUp, catalog>>

\* (mutant) a heal that goes to OK from HEALING only
SelfHealOkIfHealing(t) ==
    /\ pc[t] = "sh_ok"
    /\ system_status' = IF system_status = "HEALING" THEN "OK" ELSE system_status
    /\ SetLoc(t, "over", FailComplete)
    /\ Goto(t, "sh_insert")
    /\ UNCHANGED <<last_incident, workflows, incidents, last_backup, files, opCount, everBackedUp, catalog>>

\* time.sleep(1); state["system_status"] = "OK".  `over` remembers whether
\* the write came after a fail had completed.
SelfHealOk(t) ==
    /\ pc[t] = "sh_ok"
    /\ system_status' = "OK"
    /\ SetLoc(t, "over", FailComplete)
    /\ Goto(t, "sh_insert")
    /\ UNCHANGED <<last_incident, workflows, incidents, last_backup, files, opCount, everBackedUp, catalog>>

\* duration = int((time.time() - start) * 1000); incident = {...};
\* state["incidents"].insert(0, incident)
SelfHealInsert(t) ==
    /\ pc[t] = "sh_insert"
    /\ \E duration \in HealDurations :
         incidents' = Insert0(incidents, LatencyIncident(FreshId, duration))
    /\ SetLoc(t, "inc", FreshId)
    /\ Goto(t, "sh_len")
    /\ UNCHANGED <<system_status, last_incident, workflows, last_backup, files, opCount, everBackedUp, catalog>>

\* if len(state["incidents"]) > 5:
SelfHealLen(t) ==
    /\ pc[t] = "sh_len"
    /\ Goto(t, IF OverCap(incidents) THEN "sh_pop" ELSE "sh_last")
    /\ UNCHANGED <<tracker, last_backup, files, loc, opCount, everBackedUp, catalog>>

\* state["incidents"].pop()
SelfHealPop(t) ==
    /\ pc[t] = "sh_pop"
    /\ incidents' = Pop(incidents)
    /\ Goto(t, "sh_last")
    /\ UNCHANGED <<system_status, last_incident, workflows, last_backup, files, loc, opCount, everBackedUp, catalog>>

\* state["last_incident"] = f"Resolved: {incident['type']}"
SelfHealLast(t) ==
    /\ pc[t] = "sh_last"
    /\ last_incident' = "Resolved: Latency Spike"
    /\ Goto(t, "sh_agent")
    /\ UNCHANGED <<system_status, workflows, incidents, last_backup, files, loc, opCount, everBackedUp, catalog>>

\* state["workflows"][0]["status"] = "Running"
SelfHealAgent(t) ==
    /\ pc[t] = "sh_agent"
    /\ workflows' = [workflows EXCEPT ![1] = "Running"]
    /\ Goto(t, "sh_done")
    /\ UNCHANGED <<system_status, last_incident, incidents, last_backup, files, loc, opCount, everBackedUp, catalog>>

\* ----------------------------------------------------- real_fail (411-429)
RealFailStatus(t) ==
    /\ pc[t] = "rf_status"
    /\ system_status' = "DEGRADED"
    /\ Goto(t, "rf_insert")
    /\ UNCHANGED <<last_incident, workflows, incidents, last_backup, files, loc, opCount, everBackedUp, catalog>>

\* incident = {...}; state["incidents"].insert(0, incident)
RealFailInsert(t) ==
    /\ pc[t] = "rf_insert"
    /\ incidents' = Insert0(incidents, FailureIncident(FreshId))
    /\ SetLoc(t, "inc", FreshId)
    /\ Goto(t, "rf_len")
    /\ UNCHANGED <<system_status, last_incident, workflows, last_backup, files, opCount, everBackedUp, catalog>>

RealFailLen(t) ==
    /\ pc[t] = "rf_len"
    /\ Goto(t, IF OverCap(incidents) THEN "rf_pop" ELSE "rf_last")
    /\ UNCHANGED <<tracker, last_backup, files, loc, opCount, everBackedUp, catalog>>

RealFailPop(t) ==
    /\ pc[t] = "rf_pop"
    /\ incidents' = Pop(incidents)
    /\ Goto(t, "rf_last")
    /\ UNCHANGED <<system_status, last_incident, workflows, last_backup, files, loc, opCount, everBackedUp, catalog>>

RealFailLast(t) ==
    /\ pc[t] = "rf_last"
    /\ last_incident' = "Critical Failure: API Unresponsive"
    /\ Goto(t, "rf_done")
    /\ UNCHANGED <<system_status, workflows, incidents, last_backup, files, loc, opCount, everBackedUp, catalog>>

\* ----------------------------------------------------- real_heal (431-464)
\* time.sleep(2); state["system_status"] = "HEALING"
RealHealHealing(t) ==
    /\ pc[t] = "rh_healing"
    /\ system_status' = "HEALING"
    /\ Goto(t, "rh_ok")
    /\ UNCHANGED <<last_incident, workflows, incidents, last_backup, files, loc, opCount, everBackedUp, catalog>>

\* time.sleep(1); state["system_status"] = "OK"
RealHealOk(t) ==
    /\ pc[t] = "rh_ok"
    /\ system_status' = "OK"
    /\ SetLoc(t, "over", FailComplete)
    /\ Goto(t, "rh_scan")
    /\ UNCHANGED <<last_incident, workflows, incidents, last_backup, files, opCount, everBackedUp, catalog>>

\* One turn of `for inc in state["incidents"]`: the list iterator is at
\* index i of the live list; it stops when i is past the end.
RealHealScan(t) ==
    /\ pc[t] = "rh_scan"
    /\ IF loc[t].i > Len(incidents)
         THEN Goto(t, "rh_insert") /\ UNCHANGED loc
         ELSE IF IsPendingFailure(incidents[loc[t].i])
                THEN Goto(t, "rh_result") /\ SetLoc(t, "inc", incidents[loc[t].i].id)
                ELSE UNCHANGED pc /\ SetLoc(t, "i", loc[t].i + 1)
    /\ UNCHANGED <<tracker, last_backup, files, opCount, everBackedUp, catalog>>

\* inc["result"] = "Recovered"
RealHealResult(t) ==
    /\ pc[t] = "rh_result"
    /\ incidents' = SetField(incidents, loc[t].inc, "result", "Recovered")
    /\ Goto(t, "rh_duration")
    /\ UNCHANGED <<system_status, last_incident, workflows, last_backup, files, loc, opCount, everBackedUp, catalog>>

\* inc["duration_ms"] = 12800; incident = inc; break
RealHealDuration(t) ==
    /\ pc[t] = "rh_duration"
    /\ incidents' = SetField(incidents, loc[t].inc, "duration_ms", RestartMs)
    /\ Goto(t, "rh_last")
    /\ UNCHANGED <<system_status, last_incident, workflows, last_backup, files, loc, opCount, everBackedUp, catalog>>

\* if not incident: incident = {...}; state["incidents"].insert(0, incident)
RealHealInsert(t) ==
    /\ pc[t] = "rh_insert"
    /\ incidents' = Insert0(incidents, ManualIncident(FreshId))
    /\ SetLoc(t, "inc", FreshId)
    /\ Goto(t, "rh_last")
    /\ UNCHANGED <<system_status, last_incident, workflows, last_backup, files, opCount, everBackedUp, catalog>>

\* state["last_incident"] = "System Recovered"
RealHealLast(t) ==
    /\ pc[t] = "rh_last"
    /\ last_incident' = "System Recovered"
    /\ Goto(t, "rh_agent")
    /\ UNCHANGED <<system_status, workflows, incidents, last_backup, files, loc, opCount, everBackedUp, catalog>>

\* state["workflows"][0]["status"] = "Running"
RealHealAgent(t) ==
    /\ pc[t] = "rh_agent"
    /\ workflows' = [workflows EXCEPT ![1] = "Running"]
    /\ Goto(t, "rh_done")
    /\ UNCHANGED <<system_status, last_incident, incidents, last_backup, files, loc, opCount, everBackedUp, catalog>>

\* --------------------------------------------- get_system_status (210-241)
\* agents_status = "Running"; if state["system_status"] != "OK": "Degraded"
StatusAgents(t) ==
    /\ pc[t] = "ss_agents"
    /\ SetLoc(t, "agents", IF system_status # "OK" THEN "Degraded (4/4)" ELSE "Running (4/4)")
    /\ Goto(t, "ss_backup")
    /\ UNCHANGED <<tracker, last_backup, files, opCount, everBackedUp, catalog>>

\* The relative-time bucket of state["last_backup"]["ts"].
BackupText(lb, clock) ==
    IF lb.ts = NoFile THEN "Today 04:00 AM"
    ELSE IF clock - lb.ts < 60 THEN "Just now"
    ELSE IF clock - lb.ts < 3600 THEN "m ago"
    ELSE "Today"

StatusBackup(t) ==
    /\ pc[t] = "ss_backup"
    /\ SetLoc(t, "backup", BackupText(last_backup, now))
    /\ Goto(t, "ss_state")
    /\ UNCHANGED <<tracker, last_backup, files, opCount, everBackedUp, catalog>>

\* "system_state": state["system_status"]
StatusState(t) ==
    /\ pc[t] = "ss_state"
    /\ SetLoc(t, "system_state", system_status)
    /\ Goto(t, "ss_last")
    /\ UNCHANGED <<tracker, last_backup, files, opCount, everBackedUp, catalog>>

\* "last_incident": state["last_incident"]
StatusLast(t) ==
    /\ pc[t] = "ss_last"
    /\ SetLoc(t, "last", last_incident)
    /\ Goto(t, "ss_done")
    /\ UNCHANGED <<tracker, last_backup, files, opCount, everBackedUp, catalog>>

\* The snapshot a finished get_system_status returns.
Snapshot(t) ==
    [system_state |-> loc[t].system_state, agents |-> loc[t].agents,
     last_incident |-> loc[t].last]

\* The snapshot a read of state s returns when nothing runs beside it.
SnapshotOf(s) ==
    [system_state |-> s.system_status,
     agents |-> IF s.system_status # "OK" THEN "Degraded (4/4)" ELSE "Running (4/4)",
     last_incident |-> s.last_incident]

\* ------------------------------------------------- get_incidents (370-372)
\* The handler returns the list object itself; the response encoder then
\* walks the live list, one record per turn, while other threads run.
IncidentsEncode(t) ==
    /\ pc[t] = "gi_return"
    /\ IF loc[t].i > Len(incidents)
         THEN Goto(t, "gi_done") /\ UNCHANGED loc
         ELSE /\ UNCHANGED pc
              /\ loc' = [loc EXCEPT ![t].out = Append(@, incidents[loc[t].i]),
                                    ![t].i = @ + 1]
    /\ UNCHANGED <<tracker, last_backup, files, opCount, everBackedUp, catalog>>

\* ---------------------------------------------------- get_health (199-208)
\* "status": state["system_status"]
HealthRead(t) ==
    /\ pc[t] = "gh_read"
    /\ SetLoc(t, "system_state", system_status)
    /\ Goto(t, "gh_done")
    /\ UNCHANGED <<tracker, last_backup, files, opCount, everBackedUp, catalog>>

\* --------------------------------------- get_orchestrator_status (243-267)
\* The n8n probe answers or raises; both branches return state["workflows"].
OrchestratorRead(t) ==
    /\ pc[t] = "os_read"
    /\ \E reached \in BOOLEAN :
         loc' = [loc EXCEPT ![t].out = workflows,
                            ![t].res = IF reached THEN "Live" ELSE "Offline (Seed)"]
    /\ Goto(t, "os_done")
    /\ UNCHANGED <<tracker, last_backup, files, opCount, everBackedUp, catalog>>

\* --------------------------------------------- get_backup_status (306-318)
\* lb = state["last_backup"]
BackupStatusRead(t) ==
    /\ pc[t] = "bs_read"
    /\ SetLoc(t, "lb", last_backup)
    /\ Goto(t, "bs_done")
    /\ UNCHANGED <<tracker, last_backup, files, opCount, everBackedUp, catalog>>

\* ---------------------------------------------------- run_backup (277-304)
\* ts = datetime.now().isoformat(); filename = f"backup_{int(time.time())}.tar.gz"
BackupName(t) ==
    /\ pc[t] = "rb_name"
    /\ loc' = [loc EXCEPT ![t].ts = now, ![t].file = now]
    /\ Goto(t, "rb_open")
    /\ UNCHANGED <<tracker, last_backup, files, opCount, everBackedUp, catalog>>

\* tarfile.open(filepath, "w:gz"): the file is created, or cut to nothing
BackupOpen(t) ==
    /\ pc[t] = "rb_open"
    /\ backups' = [backups EXCEPT ![loc[t].file] = 0]
    /\ Goto(t, "rb_close")
    /\ UNCHANGED <<tracker, last_backup, now, evidence, packCalls, backupCalls, loc, opCount, everBackedUp, catalog>>

\* tar.add(...); the with block closes the archive: the bytes are in the
\* file at this path, if the path still names a file
BackupClose(t) ==
    /\ pc[t] = "rb_close"
    /\ backups' = [backups EXCEPT ![loc[t].file] = IF @ = NoFile THEN NoFile ELSE ArchiveSize]
    /\ Goto(t, "rb_size")
    /\ UNCHANGED <<tracker, last_backup, now, evidence, packCalls, backupCalls, loc, opCount, everBackedUp, catalog>>

\* size = os.path.getsize(filepath): raises when the file is gone
BackupSize(t) ==
    /\ pc[t] = "rb_size"
    /\ IF backups[loc[t].file] = NoFile
         THEN Goto(t, "rb_error") /\ UNCHANGED loc
         ELSE Goto(t, "rb_state") /\ SetLoc(t, "size", backups[loc[t].file])
    /\ UNCHANGED <<tracker, last_backup, files, opCount, everBackedUp, catalog>>

\* state["last_backup"] = {"ts": ts, "file": filename, "size": size}
BackupState(t) ==
    /\ pc[t] = "rb_state"
    /\ last_backup' = [ts |-> loc[t].ts, file |-> loc[t].file, size |-> loc[t].size]
    /\ everBackedUp' = TRUE
    /\ backupCalls' = [backupCalls EXCEPT ![loc[t].file] = @ + 1]
    /\ Goto(t, "rb_done")
    /\ UNCHANGED <<tracker, now, backups, evidence, packCalls, loc, opCount, catalog>>

\* ------------------------------------------------- verify_backup (320-330)
\* lb = state["last_backup"]; if not lb["file"]: raise 404
VerifyRead(t) ==
    /\ pc[t] = "vb_read"
    /\ IF last_backup.file = NoFile
         THEN Goto(t, "vb_done") /\ loc' = [loc EXCEPT ![t].lb = last_backup, ![t].res = "NotFound"]
         ELSE Goto(t, "vb_check") /\ SetLoc(t, "lb", last_backup)
    /\ UNCHANGED <<tracker, last_backup, files, opCount, everBackedUp, catalog>>

\* (mutant) the check without its test of the size
FileExists(dir, name) == dir[name] # NoFile

\* os.path.exists(filepath) and os.path.getsize(filepath) > 0
FileOk(dir, name) == dir[name] # NoFile /\ dir[name] > 0

\* return {"ok": True}, or raise 500 "Backup file missing or empty"
VerifyCheck(t) ==
    /\ pc[t] = "vb_check"
    /\ SetLoc(t, "res", IF FileOk(backups, loc[t].lb.file) THEN "ok" ELSE "IntegrityError")
    /\ Goto(t, "vb_done")
    /\ UNCHANGED <<tracker, last_backup, files, opCount, everBackedUp, catalog>>

\* ------------------------------------------- build_evidence_pack (469-529)
\* ts = datetime.now().isoformat(); pack_id = f"evidence_{int(time.time())}"
\* ts has microseconds: it tells the calls apart, as the request number does.
EvidenceName(t) ==
    /\ pc[t] = "ev_name"
    /\ loc' = [loc EXCEPT ![t].ts = loc[t].req, ![t].file = now]
    /\ Goto(t, "ev_collect")
    /\ UNCHANGED <<tracker, last_backup, files, opCount, everBackedUp, catalog>>

\* evidence_data = {...}: what the pack says about the state
EvidenceCollect(t) ==
    /\ pc[t] = "ev_collect"
    /\ SetLoc(t, "content", [ts |-> loc[t].ts, status |-> system_status,
                             incidents |-> Len(incidents), backup |-> NoFile])
    /\ Goto(t, "ev_write")
    /\ UNCHANGED <<tracker, last_backup, files, opCount, everBackedUp, catalog>>

\* with zipfile.ZipFile(zip_path, 'w') as zf: ... the pack file is written
\* anew at its path, with the latest backup inside when that file exists
EvidenceWrite(t) ==
    /\ pc[t] = "ev_write"
    /\ LET held == IF last_backup.file # NoFile /\ backups[last_backup.file] # NoFile
                     THEN last_backup.file ELSE NoFile
           content == [loc[t].content EXCEPT !.backup = held]
       IN /\ evidence' = [evidence EXCEPT ![loc[t].file] = content]
          /\ SetLoc(t, "content", content)
    /\ Goto(t, "ev_return")
    /\ UNCHANGED <<tracker, last_backup, now, backups, packCalls, backupCalls, opCount, everBackedUp, catalog>>

\* size = os.path.getsize(zip_path); return {"ok": True, "pack_id": pack_id, ...}
EvidenceReturn(t) ==
    /\ pc[t] = "ev_return"
    /\ packCalls' = [packCalls EXCEPT ![loc[t].file] = @ + 1]
    /\ Goto(t, "ev_done")
    /\ UNCHANGED <<tracker, last_backup, now, backups, evidence, backupCalls, loc, opCount,
                   everBackedUp, catalog>>

\* --------------------------------------------- download_evidence (533-541)
DownloadCheck(t) ==
    /\ pc[t] = "dl_check"
    /\ IF evidence[loc[t].arg] # NoPack
         THEN loc' = [loc EXCEPT ![t].res = "ok", ![t].content = evidence[loc[t].arg]]
         ELSE SetLoc(t, "res", "NotFound")
    /\ Goto(t, "dl_done")
    /\ UNCHANGED <<tracker, last_backup, files, opCount, everBackedUp, catalog>>

\* ------------------------------------------------ the catalog (100-195)
\* A JSON object is a record that carries the set of keys it has: a key
\* outside `keys` is absent, whatever its field holds.  A kpis mapping is a
\* sequence of <<key, number>> pairs, a levers list a sequence of tokens.
FacultyIds == {"fine_arts", "engineering"}
DeptIds == {"design", "music"}
NoId == "None"                       \* id: Optional[str] = None
RequestIds == FacultyIds \cup DeptIds \cup {"unknown", NoId}
Scopes == {"campus", "faculty", "department", "building"}

Has(d, k) == k \in d.keys
\* d.get(k, default)
Get(d, k, default) == IF Has(d, k) THEN d[k] ELSE default

NodeKpis(n) == <<<<"co2e_t", n>>>>
Levers(on, n) == IF on THEN <<n>> ELSE <<>>
NodeKeys(on) == {"id", "name", "kpis"} \cup (IF on THEN {"levers"} ELSE {})

\* Department j of faculty i; it has a levers key when i + j is even.
Department(i, j, id) ==
    [keys |-> NodeKeys((i + j) % 2 = 0), id |-> id,
     name |-> "Department " \o ToString(i) \o "." \o ToString(j),
     kpis |-> NodeKpis(10 * i + j), levers |-> Levers((i + j) % 2 = 0, 10 * i + j)]

\* Faculty i; it has a levers key when i is odd, and a departments key when
\* withDepts.
Faculty(i, id, withDepts, depts) ==
    [keys |-> NodeKeys(i % 2 = 1) \cup (IF withDepts THEN {"departments"} ELSE {}),
     id |-> id, name |-> "Faculty " \o ToString(i), kpis |-> NodeKpis(i),
     levers |-> Levers(i % 2 = 1, i), departments |-> depts]

\* The campus node; it has a levers key when on.
Campus(on) ==
    [keys |-> {"kpis"} \cup (IF on THEN {"levers"} ELSE {}),
     kpis |-> NodeKpis(0), levers |-> Levers(on, 0)]

\* The lists of k departments faculty i may have.
DeptLists(i, k) == {[j \in 1..k |-> Department(i, j, ids[j])] : ids \in [1..k -> DeptIds]}

\* Faculty i with k departments; without any, an even one has no
\* departments key and an odd one an empty list.
FacultyChoices(i, k) ==
    {Faculty(i, id, k > 0 \/ i % 2 = 1, ds) : id \in FacultyIds, ds \in DeptLists(i, k)}

\* The lists of n faculties with at most d departments between them.
RECURSIVE FacultyLists(_, _)
FacultyLists(n, d) ==
    IF n = 0 THEN {<<>>}
    ELSE UNION {{Append(fs, f) : fs \in FacultyLists(n - 1, d - k), f \in FacultyChoices(n, k)} :
                k \in 0..d}

\* json.load results: None (nothing loaded), {} and catalogs with a campus
\* node and, unless the key is left out, up to MaxFaculties faculties with
\* up to MaxDepts departments between them.
None == [isNone |-> TRUE, keys |-> {}, campus |-> Campus(FALSE), faculties |-> <<>>]
EmptyObject == [None EXCEPT !.isNone = FALSE]
CatalogOf(fs) ==
    [isNone |-> FALSE, keys |-> {"campus", "faculties"},
     campus |-> Campus(Len(fs) % 2 = 1), faculties |-> fs]
CampusOnly == [CatalogOf(<<>>) EXCEPT !.keys = {"campus"}]
Catalogs ==
    {CampusOnly}
      \cup UNION {{CatalogOf(fs) : fs \in FacultyLists(n, MaxDepts)} : n \in 0..MaxFaculties}

\* What CATALOG_PATH holds: no file, a file json.load rejects, or JSON.
Absent == [kind |-> "absent", data |-> None]
Malformed == [kind |-> "malformed", data |-> None]
Json(d) == [kind |-> "json", data |-> d]
CatalogFiles == {Absent, Malformed, Json(EmptyObject)} \cup {Json(c) : c \in Catalogs}

\* Python truth of a load_catalog() result: None and {} are false.
Truthy(d) == ~d.isNone /\ d.keys # {}

\* `if catalog_cache: return catalog_cache`
CacheHit == Truthy(catalog_cache)
\* os.path.exists(CATALOG_PATH) and open(...): the file is read
FileRead == ~CacheHit /\ catalogFile.kind # "absent"
\* catalog_cache after load_catalog(): json.load's result when it returns
CacheAfterLoad ==
    IF FileRead /\ catalogFile.kind = "json" THEN catalogFile.data ELSE catalog_cache
\* what load_catalog() returns
load_catalog ==
    IF CacheHit THEN catalog_cache
    ELSE IF FileRead /\ catalogFile.kind = "json" THEN catalogFile.data
    ELSE None

\* The side of load_catalog() that stays behind.
LoadCatalog ==
    /\ FileRead => fileReads < MaxCatalogReads
    /\ catalog_cache' = CacheAfterLoad
    /\ fileReads' = IF FileRead THEN fileReads + 1 ELSE fileReads
    /\ firstLoad' = IF firstLoad # "None" THEN firstLoad
                    ELSE IF load_catalog = None THEN "failed" ELSE "loaded"

\* Responses: a JSON list (get_faculties, get_departments) or a JSON object
\* (get_scope_kpis), a 404, or the 500 of an uncaught KeyError.
NoRec == [keys |-> {}, scope |-> "", name |-> "", kpis |-> <<>>, levers |-> <<>>]
NoAnswer ==
    [op |-> "None", scope |-> "", id |-> NoId, status |-> "None", list |-> <<>>,
     rec |-> NoRec]
Answered(op, scope, id, status, list, rec) ==
    [op |-> op, scope |-> scope, id |-> id, status |-> status, list |-> list,
     rec |-> rec]

NoCatalogTraffic ==
    /\ catalog_cache = None
    /\ answer = NoAnswer
    /\ fileReads = 0
    /\ firstLoad = "None"

\* {"id": n["id"], "name": n["name"], "kpis": n["kpis"]}
Summary(n) == [id |-> n.id, name |-> n.name, kpis |-> n.kpis]
Summaries(nodes) == [j \in 1..Len(nodes) |-> Summary(nodes[j])]
FallbackFaculty == [id |-> "fine_arts", name |-> "Fine Arts & Design", kpis |-> <<>>]
\* 1.2 is held in tenths
FallbackKpis ==
    <<<<"co2e_t", 18450>>, <<"energy_mwh", 14200>>, <<"water_m3", 45000>>,
      <<"intensity_tenths", 12>>, <<"progress", 42>>>>
FallbackScope ==
    [keys |-> {"scope", "kpis", "levers"}, scope |-> "campus", name |-> "",
     kpis |-> FallbackKpis, levers |-> <<>>]
ScopeRecord(scope, name, kpis, levers) ==
    [keys |-> {"scope", "name", "kpis", "levers"}, scope |-> scope, name |-> name,
     kpis |-> kpis, levers |-> levers]

\* next((n for n in nodes if n["id"] == id), None), as an index: 0 is None
LastIndex(nodes, id) ==
    IF \E j \in 1..Len(nodes) : nodes[j].id = id
      THEN CHOOSE j \in 1..Len(nodes) :
             nodes[j].id = id /\ \A k \in (j + 1)..Len(nodes) : nodes[k].id # id
      ELSE 0
FirstIndex(nodes, id) ==
    IF \E j \in 1..Len(nodes) : nodes[j].id = id
      THEN CHOOSE j \in 1..Len(nodes) :
             nodes[j].id = id /\ \A k \in 1..(j - 1) : nodes[k].id # id
      ELSE 0

\* for f in data["faculties"]: d = next(...); if d: dept = d; break
\* The faculty the loop breaks at, 0 if it runs to the end.
LastFacultyWith(fs, id) ==
    IF \E i \in 1..Len(fs) : FirstIndex(Get(fs[i], "departments", <<>>), id) # 0
      THEN CHOOSE i \in 1..Len(fs) :
             /\ FirstIndex(Get(fs[i], "departments", <<>>), id) # 0
             /\ \A k \in (i + 1)..Len(fs) :
                  FirstIndex(Get(fs[k], "departments", <<>>), id) = 0
      ELSE 0
FirstFacultyWith(fs, id) ==
    IF \E i \in 1..Len(fs) : FirstIndex(Get(fs[i], "departments", <<>>), id) # 0
      THEN CHOOSE i \in 1..Len(fs) :
             /\ FirstIndex(Get(fs[i], "departments", <<>>), id) # 0
             /\ \A k \in 1..(i - 1) :
                  FirstIndex(Get(fs[k], "departments", <<>>), id) = 0
      ELSE 0

\* GET /api/catalog/faculties
FacultiesAnswer(data) ==
    IF ~Truthy(data)
      THEN Answered("get_faculties", "", NoId, "ok", <<FallbackFaculty>>, NoRec)
      ELSE Answered("get_faculties", "", NoId, "ok",
                    Summaries(Get(data, "faculties", <<>>)), NoRec)

get_faculties ==
    /\ LoadCatalog
    /\ answer' = FacultiesAnswer(load_catalog)
    /\ UNCHANGED <<tracker, last_backup, files, pc, loc, opCount, everBackedUp, catalogFile>>

\* GET /api/catalog/departments?faculty_id=...
DepartmentsAnswer(data, faculty_id) ==
    IF ~Truthy(data)
      THEN Answered("get_departments", "", faculty_id, "ok", <<>>, NoRec)
    ELSE IF ~Has(data, "faculties")
      THEN Answered("get_departments", "", faculty_id, "KeyError", <<>>, NoRec)
    ELSE LET i == FirstIndex(data.faculties, faculty_id)
         IN IF i = 0
              THEN Answered("get_departments", "", faculty_id, "ok", <<>>, NoRec)
              ELSE Answered("get_departments", "", faculty_id, "ok",
                            Summaries(Get(data.faculties[i], "departments", <<>>)), NoRec)

get_departments(faculty_id) ==
    /\ LoadCatalog
    /\ answer' = DepartmentsAnswer(load_catalog, faculty_id)
    /\ UNCHANGED <<tracker, last_backup, files, pc, loc, opCount, everBackedUp, catalogFile>>

\* GET /api/kpi/scope?scope=...&id=...
ScopeAnswer(data, scope, id) ==
    IF ~Truthy(data)
      THEN Answered("get_scope_kpis", scope, id, "ok", <<>>, FallbackScope)
    ELSE IF scope = "campus"
      THEN Answered("get_scope_kpis", scope, id, "ok", <<>>,
                    ScopeRecord("campus", "Campus Overview", data.campus.kpis,
                                Get(data.campus, "levers", <<>>)))
    ELSE IF scope \in {"faculty", "department"} /\ ~Has(data, "faculties")
      THEN Answered("get_scope_kpis", scope, id, "KeyError", <<>>, NoRec)
    ELSE IF scope = "faculty"
      THEN LET i == FirstIndex(data.faculties, id)
           IN IF i = 0
                THEN Answered("get_scope_kpis", scope, id, "NotFound", <<>>, NoRec)
                ELSE Answered("get_scope_kpis", scope, id, "ok", <<>>,
                              ScopeRecord("faculty", data.faculties[i].name,
                                          data.faculties[i].kpis,
                                          Get(data.faculties[i], "levers", <<>>)))
    ELSE IF scope = "department"
      THEN LET i == FirstFacultyWith(data.faculties, id)
           IN IF i = 0
                THEN Answered("get_scope_kpis", scope, id, "NotFound", <<>>, NoRec)
                ELSE LET ds == data.faculties[i].departments
                         dept == ds[FirstIndex(ds, id)]
                     IN Answered("get_scope_kpis", scope, id, "ok", <<>>,
                                 ScopeRecord("department", dept.name, dept.kpis,
                                             Get(dept, "levers", <<>>)))
    ELSE Answered("get_scope_kpis", scope, id, "ok", <<>>, NoRec)

get_scope_kpis(scope, id) ==
    /\ LoadCatalog
    /\ answer' = ScopeAnswer(load_catalog, scope, id)
    /\ UNCHANGED <<tracker, last_backup, files, pc, loc, opCount, everBackedUp, catalogFile>>

\* The seed file is written to CATALOG_PATH, from outside the program, where
\* there was none.
WriteCatalogFile(c) ==
    /\ catalogFile = Absent
    /\ catalogFile' = Json(c)
    /\ UNCHANGED <<tracker, last_backup, files, pc, loc, opCount, everBackedUp,
                   catalog_cache, answer, fileReads, firstLoad>>

\* ------------------------------------------------------- the environment
\* A second of wall-clock time passes.
Tick ==
    /\ now < MaxTime
    /\ now' = now + 1
    /\ UNCHANGED <<tracker, last_backup, backups, evidence, packCalls, backupCalls, pc, loc, opCount, everBackedUp, catalog>>

\* The backup file that last_backup names is removed from BACKUP_DIR, from
\* outside the program.
RemoveBackupFile(f) ==
    /\ f = last_backup.file
    /\ backups[f] # NoFile
    /\ backups' = [backups EXCEPT ![f] = NoFile]
    /\ UNCHANGED <<tracker, last_backup, now, evidence, packCalls, backupCalls, pc, loc, opCount, everBackedUp, catalog>>

\* --------------------------------------------------------- specifications
Init ==
    /\ system_status = "OK"
    /\ last_incident = "None"
    /\ workflows = InitWorkflows
    /\ incidents = <<>>
    /\ last_backup = NoBackup
    /\ now = 0
    /\ backups = [f \in Seconds |-> NoFile]
    /\ evidence = [f \in Seconds |-> NoPack]
    /\ pc = [t \in Threads |-> "idle"]
    /\ loc = [t \in Threads |-> NoLocals]
    /\ opCount = 0
    /\ everBackedUp = FALSE
    /\ packCalls = [f \in Seconds |-> 0]
    /\ backupCalls = [f \in Seconds |-> 0]
    /\ catalogFile = Absent
    /\ NoCatalogTraffic

\* The state k served heals leave when they run one after the other from
\* Init: health OK, their summary, and their k records, the latest first.
HealedLog(k) == [j \in 1..k |-> LatencyIncident(k + 1 - j, MinHealMs)]

InitHealed ==
    /\ system_status = "OK"
    /\ workflows = InitWorkflows
    /\ \E k \in {0, MaxIncidents} :
         /\ incidents = HealedLog(k)
         /\ last_incident = IF k = 0 THEN "None" ELSE "Resolved: Latency Spike"
    /\ last_backup = NoBackup
    /\ now = 0
    /\ backups = [f \in Seconds |-> NoFile]
    /\ evidence = [f \in Seconds |-> NoPack]
    /\ pc = [t \in Threads |-> "idle"]
    /\ loc = [t \in Threads |-> NoLocals]
    /\ opCount = 0
    /\ everBackedUp = FALSE
    /\ packCalls = [f \in Seconds |-> 0]
    /\ backupCalls = [f \in Seconds |-> 0]
    /\ catalogFile = Absent
    /\ NoCatalogTraffic

\* One statement of a state-tracker handler runs on thread t.
TrackerStep(t) ==
    \/ SimFailStatus(t) \/ SimFailLast(t) \/ SimFailAgent(t)
    \/ SelfHealHealing(t) \/ SelfHealOk(t) \/ SelfHealInsert(t) \/ SelfHealLen(t)
    \/ SelfHealPop(t) \/ SelfHealLast(t) \/ SelfHealAgent(t)
    \/ RealFailStatus(t) \/ RealFailInsert(t) \/ RealFailLen(t) \/ RealFailPop(t)
    \/ RealFailLast(t)
    \/ RealHealHealing(t) \/ RealHealOk(t) \/ RealHealScan(t) \/ RealHealResult(t)
    \/ RealHealDuration(t) \/ RealHealInsert(t) \/ RealHealLast(t) \/ RealHealAgent(t)
    \/ StatusAgents(t) \/ StatusBackup(t) \/ StatusState(t) \/ StatusLast(t)
    \/ IncidentsEncode(t)

\* One statement of run_backup runs on thread t.
BackupStep(t) ==
    \/ BackupName(t) \/ BackupOpen(t) \/ BackupClose(t) \/ BackupSize(t) \/ BackupState(t)

\* One statement of verify_backup runs on thread t.
VerifyStep(t) == VerifyRead(t) \/ VerifyCheck(t)

\* One statement of build_evidence_pack or download_evidence runs on thread t.
EvidenceStep(t) ==
    \/ EvidenceName(t) \/ EvidenceCollect(t) \/ EvidenceWrite(t) \/ EvidenceReturn(t)
    \/ DownloadCheck(t)

\* The one statement of get_health, get_orchestrator_status or
\* get_backup_status runs on thread t.
ReadStep(t) == HealthRead(t) \/ OrchestratorRead(t) \/ BackupStatusRead(t)

\* The query parameters a request for handler o may carry.
Args(o) == IF o = "download_evidence" THEN Seconds ELSE {NoFile}

\* The whole program: requests for any handler arrive at any time and run
\* on the thread pool side by side, while time passes.  A run starts with
\* the log empty or, after MaxIncidents heals, full.
Accept == \E t \in Threads, o \in Ops : \E arg \in Args(o) : Begin(t, o, arg, MaxOps)
Run ==
    \E t \in Threads :
        TrackerStep(t) \/ BackupStep(t) \/ VerifyStep(t) \/ EvidenceStep(t) \/ ReadStep(t)
Respond == \E t \in Threads : Return(t)
Remove == \E f \in Seconds : RemoveBackupFile(f)
\* A catalog request is served: one handler call, from load to response.
CatalogCall ==
    \/ get_faculties
    \/ \E faculty_id \in RequestIds : get_departments(faculty_id)
    \/ \E scope \in Scopes, id \in RequestIds : get_scope_kpis(scope, id)
CatalogWrite == \E c \in Catalogs : WriteCatalogFile(c)
Next == Accept \/ Run \/ Respond \/ Tick \/ Remove \/ CatalogCall \/ CatalogWrite
Spec == InitHealed /\ [][Next]_vars

\* The state tracker alone: fail, heal and the two reads, side by side.
TrackerAccept == \E t \in Threads, o \in TrackerOps : Begin(t, o, NoFile, MaxOps)
TrackerRun == \E t \in Threads : TrackerStep(t)
TrackerNext == TrackerAccept \/ TrackerRun \/ Respond
TrackerSpec == InitHealed /\ [][TrackerNext]_vars

\* The thread pool runs every handler it has started: a thread that can
\* take its next statement eventually takes it.
FairTrackerSpec == TrackerSpec /\ \A t \in Threads : WF_vars(TrackerStep(t))

\* Fails that arrive while a heal runs: a heal is accepted when the pool is
\* idle, a fail when some heal has begun and not yet run its last statement.
RaceOps == {"simulate_fail", "self_heal", "real_fail", "real_heal"}
HealLabels ==
    {"sh_healing", "sh_ok", "sh_insert", "sh_len", "sh_pop", "sh_last", "sh_agent",
     "rh_healing", "rh_ok", "rh_scan", "rh_result", "rh_duration", "rh_insert",
     "rh_last", "rh_agent"}
HealInFlight == \E h \in Threads : pc[h] \in HealLabels
RaceAccept ==
    \E t \in Threads, o \in RaceOps :
        /\ IF o \in {"self_heal", "real_heal"} THEN AllIdle ELSE HealInFlight
        /\ Begin(t, o, NoFile, MaxRaceOps)
RaceStep(t) ==
    \/ SimFailStatus(t) \/ SimFailLast(t) \/ SimFailAgent(t)
    \/ SelfHealHealing(t) \/ SelfHealOk(t) \/ SelfHealInsert(t) \/ SelfHealLen(t)
    \/ SelfHealPop(t) \/ SelfHealLast(t) \/ SelfHealAgent(t)
    \/ RealFailStatus(t) \/ RealFailInsert(t) \/ RealFailLen(t) \/ RealFailPop(t)
    \/ RealFailLast(t)
    \/ RealHealHealing(t) \/ RealHealOk(t) \/ RealHealScan(t) \/ RealHealResult(t)
    \/ RealHealDuration(t) \/ RealHealInsert(t) \/ RealHealLast(t) \/ RealHealAgent(t)
RaceRun == \E t \in Threads : RaceStep(t)
HealRaceNext == RaceAccept \/ RaceRun \/ Respond
HealRaceSpec == InitHealed /\ [][HealRaceNext]_vars

\* The state tracker, one request at a time: a request is accepted only
\* when the one before it has been answered.
SeqAccept == \E o \in TrackerOps : AllIdle /\ Begin(1, o, NoFile, MaxSeqOps)
SeqNext == SeqAccept \/ TrackerStep(1) \/ Return(1)
SeqSpec == Init /\ [][SeqNext]_vars

\* Backups alone: run_backup and verify_backup side by side, while time
\* passes and the current backup file may be removed from outside.
BackupAccept == \E t \in Threads, o \in BackupOps : Begin(t, o, NoFile, MaxFileOps)
BackupRun == \E t \in Threads : BackupStep(t) \/ VerifyStep(t)
BackupNext == BackupAccept \/ BackupRun \/ Respond \/ Tick \/ Remove
BackupSpec == Init /\ [][BackupNext]_vars

\* Evidence packs: build and download side by side with run_backup, while
\* time passes.
EvidenceAccept ==
    \E t \in Threads, o \in EvidenceOps \cup {"run_backup"} :
        \E arg \in Args(o) : Begin(t, o, arg, MaxFileOps)
EvidenceRun == \E t \in Threads : EvidenceStep(t) \/ BackupStep(t)
EvidenceNext == EvidenceAccept \/ EvidenceRun \/ Respond \/ Tick
EvidenceSpec == Init /\ [][EvidenceNext]_vars

\* Every handler that reads or writes `state`, and the catalog lookups, one
\* request at a time, from the log empty or full; no catalog file is there.
FrameAccept ==
    \E o \in TrackerOps \cup BackupOps \cup ReadOps :
        AllIdle /\ Begin(1, o, NoFile, MaxFrameOps)
FrameRun == TrackerStep(1) \/ BackupStep(1) \/ VerifyStep(1) \/ ReadStep(1)
FrameCatalog ==
    AllIdle /\ (get_faculties \/ get_departments("unknown") \/ get_scope_kpis("campus", NoId))
FrameNext == FrameAccept \/ FrameRun \/ Return(1) \/ FrameCatalog
FrameSpec == InitHealed /\ [][FrameNext]_vars

\* The catalog resolver alone: the process starts with CATALOG_PATH in any
\* state, nothing cached, and serves catalog requests one after the other;
\* a seed file may be written where there was none.
CatalogInit ==
    /\ system_status = "OK"
    /\ last_incident = "None"
    /\ workflows = InitWorkflows
    /\ incidents = <<>>
    /\ last_backup = NoBackup
    /\ now = 0
    /\ backups = [f \in Seconds |-> NoFile]
    /\ evidence = [f \in Seconds |-> NoPack]
    /\ pc = [t \in Threads |-> "idle"]
    /\ loc = [t \in Threads |-> NoLocals]
    /\ opCount = 0
    /\ everBackedUp = FALSE
    /\ packCalls = [f \in Seconds |-> 0]
    /\ backupCalls = [f \in Seconds |-> 0]
    /\ catalogFile \in CatalogFiles
    /\ NoCatalogTraffic
CatalogNext == CatalogCall \/ CatalogWrite
CatalogSpec == CatalogInit /\ [][CatalogNext]_vars

\* The full log that InitHealed starts from is the one that MaxIncidents
\* served heals, run one at a time from Init, leave.
HealedLogNotReached ==
    ~(AllIdle /\ opCount = MaxIncidents /\ incidents = HealedLog(MaxIncidents)
        /\ system_status = "OK" /\ last_incident = "Resolved: Latency Spike"
        /\ workflows = InitWorkflows)

\* ================================================================ claims
\* The label at which handler o has run its last statement.
DoneLabel(o) ==
    CASE o = "simulate_fail" -> "sf_done"
      [] o = "self_heal" -> "sh_done"
      [] o = "real_fail" -> "rf_done"
      [] o = "real_heal" -> "rh_done"
      [] o = "run_backup" -> "rb_done"

HealDone(t) == pc[t] \in {DoneLabel("self_heal"), DoneLabel("real_heal")}
Ids(log) == {log[k].id : k \in 1..Len(log)}
HasPending(log) == \E k \in 1..Len(log) : log[k].result = "Pending"

\* C1: whenever no request is in flight, after any sequence of fail and heal
\* operations, the incident log holds at most 5 records.
IncidentCap == AllIdle => Len(incidents) <= MaxIncidents

\* The state a completed real_fail leaves: DEGRADED, its failure text, and
\* its Pending record at the front of the log.
AfterFail(s) ==
    /\ s.system_status = "DEGRADED"
    /\ s.last_incident = "Critical Failure: API Unresponsive"
    /\ Len(s.incidents) >= 1
    /\ IsPendingFailure(s.incidents[1])

\* C2: when the heal served at POST /api/selfheal/run completes, having been
\* accepted in the state a fail left, health is OK and the fail's Pending
\* record is the same record, now Recovered/Resolved, still at the front; the
\* heal has inserted no second record.
FailThenHeal ==
    \A t \in Threads :
        (pc[t] = DoneLabel(ServedHeal) /\ AfterFail(loc[t].pre)) =>
            /\ system_status = "OK"
            /\ Len(incidents) = Len(loc[t].pre.incidents)
            /\ incidents[1].id = loc[t].pre.incidents[1].id
            /\ incidents[1].result \in {"Recovered", "Resolved"}
            /\ Tail(incidents) = Tail(loc[t].pre.incidents)

\* C3: every change of health is one of OK -> DEGRADED, DEGRADED -> HEALING,
\* HEALING -> OK.
HealthCycle ==
    [][system_status' # system_status =>
        <<system_status, system_status'>> \in
            {<<"OK", "DEGRADED">>, <<"DEGRADED", "HEALING">>, <<"HEALING", "OK">>}]_vars

\* C4: in a run of one heal and one status read, the snapshot the read
\* returns is that of the state before the heal began or that of the state
\* after it completed.
StatusReadConsistent ==
    \A r \in Threads, h \in Threads :
        (opCount = 2 /\ pc[r] = "ss_done" /\ HealDone(h)) =>
            Snapshot(r) \in {SnapshotOf(loc[h].pre), SnapshotOf(TrackerDict)}

\* Thread t has made the first of its handler's writes to `state` and not
\* yet the last.
InWriteSection(t) ==
    pc[t] \in {"sf_last", "sf_agent",
               "sh_ok", "sh_insert", "sh_len", "sh_pop", "sh_last", "sh_agent",
               "rf_insert", "rf_len", "rf_pop", "rf_last",
               "rh_ok", "rh_scan", "rh_result", "rh_duration", "rh_insert",
               "rh_last", "rh_agent"}

\* C5: no two requests are at the same time between their first and their
\* last write to the shared state.
MutualExclusion == Cardinality({t \in Threads : InWriteSection(t)}) <= 1

\* A (result, duration_ms) pair that a record holds before or after a
\* transition, never in the middle of one.
WholeRecord(inc) ==
    \/ inc.result = "Pending" /\ inc.duration_ms = 0
    \/ inc.result = "Recovered" /\ inc.duration_ms = RestartMs
    \/ inc.result = "Resolved" /\ inc.duration_ms \in HealDurations

\* C6: the incident list a read returns holds whole records only, and at
\* most 5 of them.
IncidentReadWhole ==
    \A t \in Threads :
        pc[t] = "gi_done" =>
            /\ Len(loc[t].out) <= MaxIncidents
            /\ \A k \in 1..Len(loc[t].out) : WholeRecord(loc[t].out[k])

\* C7: a heal accepted in a state whose log holds no Pending record completes
\* with health OK and a newly made record at the front of the log, the
\* records it found behind it.
HealWithoutPending ==
    \A t \in Threads :
        (HealDone(t) /\ ~HasPending(loc[t].pre.incidents)) =>
            /\ system_status = "OK"
            /\ Len(incidents) >= 1
            /\ incidents[1].id = loc[t].inc
            /\ incidents[1].id \notin Ids(loc[t].pre.incidents)
            /\ incidents[1].type \in {"Latency Spike", "api_restart_manual"}
            /\ incidents[1].result \in {"Resolved", "Recovered"}
            /\ Len(incidents) > Len(loc[t].pre.incidents) \/ Len(incidents) >= MaxIncidents
            /\ Tail(incidents) = SubSeq(loc[t].pre.incidents, 1, Len(incidents) - 1)

\* C7 witness: a heal from the initial state, with no fail before it, has
\* completed.
HealFromInitialState ==
    \E t \in Threads :
        /\ HealDone(t)
        /\ opCount = 1
        /\ loc[t].pre.incidents = <<>>
        /\ Len(incidents) = 1

\* Thread t has completed a fail or heal that put a new record in the log.
Inserted(t) ==
    /\ pc[t] \in {DoneLabel("self_heal"), DoneLabel("real_fail"), DoneLabel("real_heal")}
    /\ loc[t].inc \notin Ids(loc[t].pre.incidents)

\* C8: a fail or heal that inserts into a log of 5 records leaves the new
\* record in front of the 4 most recent of them, in their order: the oldest
\* one, and no other, is gone.
EvictOldest ==
    \A t \in Threads :
        (Inserted(t) /\ Len(loc[t].pre.incidents) = MaxIncidents) =>
            /\ Len(incidents) = MaxIncidents
            /\ incidents[1].id = loc[t].inc
            /\ Tail(incidents) = SubSeq(loc[t].pre.incidents, 1, MaxIncidents - 1)

\* C9: no two build calls return the same pack identifier, and the pack a
\* call has returned holds what that call wrote.
DistinctPacks ==
    /\ \A f \in Seconds : packCalls[f] <= 1
    /\ \A t \in Threads :
           pc[t] = "ev_done" => evidence[loc[t].file] = loc[t].content

\* C10: verify_backup answers NotFound exactly when no run_backup has
\* written last_backup yet; otherwise it answers ok when the file that
\* last_backup named exists and is not empty, and IntegrityError when it is
\* missing or empty; and no step of it changes `state`.
VerifyBackupOutcome ==
    [][\A t \in Threads :
        /\ (pc[t] \in {"vb_read", "vb_check"} /\ pc'[t] # pc[t]) => StateDict' = StateDict
        /\ (pc[t] = "vb_read" /\ pc'[t] # "vb_read") =>
               /\ (pc'[t] = "vb_done" /\ loc'[t].res = "NotFound") <=> ~everBackedUp
               /\ pc'[t] = "vb_check" <=> everBackedUp
               /\ loc'[t].lb = last_backup
        /\ (pc[t] = "vb_check" /\ pc'[t] # "vb_check") =>
               /\ pc'[t] = "vb_done"
               /\ loc'[t].res = "ok" <=>
                      (backups[loc[t].lb.file] # NoFile /\ backups[loc[t].lb.file] >= 1)
               /\ loc'[t].res = "IntegrityError" <=>
                      (backups[loc[t].lb.file] = NoFile \/ backups[loc[t].lb.file] = 0)
      ]_vars

\* C10 witness: verify_backup has answered IntegrityError after a backup.
VerifyFoundBadFile ==
    \E t \in Threads :
        pc[t] = "vb_done" /\ everBackedUp /\ loc[t].res = "IntegrityError"

\* The last catalog request was get_scope_kpis(scope, ...) and it was
\* answered from a loaded catalog, which is then the one in the cache.
ScopeAnsweredFromCatalog(scope) ==
    /\ Truthy(catalog_cache)
    /\ answer.op = "get_scope_kpis"
    /\ answer.scope = scope

\* Where the departments with this id sit in catalog c: <<faculty, department>>.
DeptPositions(c, id) ==
    {p \in (1..Len(c.faculties)) \X (1..MaxDepts) :
       /\ p[2] <= Len(c.faculties[p[1]].departments)
       /\ "departments" \in c.faculties[p[1]].keys
       /\ c.faculties[p[1]].departments[p[2]].id = id}
Earliest(ps) ==
    CHOOSE p \in ps : \A q \in ps : p[1] < q[1] \/ (p[1] = q[1] /\ p[2] <= q[2])

\* C11: for every loaded catalog and every id X that some department has,
\* get_scope_kpis("department", X) answers with the name, kpis and levers of
\* the first department with id X, faculties taken in catalog order and each
\* faculty's departments in order.
FirstDepartmentWins ==
    (ScopeAnsweredFromCatalog("department") /\ DeptPositions(catalog_cache, answer.id) # {})
      => LET p == Earliest(DeptPositions(catalog_cache, answer.id))
             d == catalog_cache.faculties[p[1]].departments[p[2]]
         IN /\ answer.status = "ok"
            /\ answer.rec.keys = {"scope", "name", "kpis", "levers"}
            /\ answer.rec.scope = "department"
            /\ answer.rec.name = d.name
            /\ answer.rec.kpis = d.kpis
            /\ answer.rec.levers = (IF "levers" \in d.keys THEN d.levers ELSE <<>>)

\* C11 witness: a department id that two faculties both have was resolved.
DepartmentInTwoFaculties ==
    /\ ScopeAnsweredFromCatalog("department")
    /\ answer.status = "ok"
    /\ \E p, q \in DeptPositions(catalog_cache, answer.id) : p[1] # q[1]

\* The catalog the last request was answered from has no faculty, or no
\* department, with the id asked for; without a loaded catalog there is none.
NoFacultyHas(id) ==
    \A i \in 1..Len(catalog_cache.faculties) : catalog_cache.faculties[i].id # id

\* C12: in every catalog state, loaded or not, get_scope_kpis("faculty", id)
\* fails with NotFound when no faculty has the id and
\* get_scope_kpis("department", id) fails with NotFound when no department
\* has it.
NotFoundForUnmatchedId ==
    /\ (answer.op = "get_scope_kpis" /\ answer.scope = "faculty" /\ NoFacultyHas(answer.id))
         => answer.status = "NotFound"
    /\ (answer.op = "get_scope_kpis" /\ answer.scope = "department"
          /\ DeptPositions(catalog_cache, answer.id) = {})
         => answer.status = "NotFound"

\* C13: get_scope_kpis("campus", id) answers, for any id, with a record
\* {scope, name, kpis, levers} whose scope is campus; with no catalog loaded
\* its kpis are the literal fallback and its levers empty, with a catalog
\* loaded they are the campus node's kpis and levers.
CampusAnswer ==
    (answer.op = "get_scope_kpis" /\ answer.scope = "campus")
      => /\ answer.status = "ok"
         /\ answer.rec.keys = {"scope", "name", "kpis", "levers"}
         /\ answer.rec.scope = "campus"
         /\ IF Truthy(catalog_cache)
              THEN /\ answer.rec.kpis = catalog_cache.campus.kpis
                   /\ answer.rec.levers = (IF "levers" \in catalog_cache.campus.keys
                                             THEN catalog_cache.campus.levers ELSE <<>>)
              ELSE /\ answer.rec.kpis = FallbackKpis
                   /\ answer.rec.levers = <<>>

\* Under fair scheduling every heal that starts runs to its last statement
\* (holds in FairTrackerSpec).
HealStarted(t) == pc[t] \in {FirstLabel("self_heal"), FirstLabel("real_heal")}
HealTerminates == \A t \in Threads : HealStarted(t) ~> HealDone(t)

\* C14: a heal that runs its last statement completes with health OK,
\* whatever other requests ran in the meantime.
HealCompletesOk ==
    [][\A t \in Threads : (~HealDone(t) /\ HealDone(t)') => system_status' = "OK"]_vars

\* last_incident as each fail handler sets it.
FailText(label) ==
    IF label = "sf_done" THEN "API Latency Spike detected"
    ELSE "Critical Failure: API Unresponsive"
FailDone(t) == pc[t] \in {DoneLabel("simulate_fail"), DoneLabel("real_fail")}

\* C15: every fail, simulate_fail and real_fail alike, run from any state
\* with no other request beside it, ends with health DEGRADED, last_incident
\* its fixed description and a new record at the front of the log, with
\* result Pending, severity HIGH and duration 0, and returns that record.
FailOutcome ==
    \A t \in Threads :
        FailDone(t)
          => /\ system_status = "DEGRADED"
             /\ last_incident = FailText(pc[t])
             /\ Len(incidents) >= 1
             /\ incidents[1].id \notin Ids(loc[t].pre.incidents)
             /\ incidents[1].result = "Pending"
             /\ incidents[1].severity = "HIGH"
             /\ incidents[1].duration_ms = 0
             /\ loc[t].inc = incidents[1].id

\* C16: after every fail workflows[0] shows the retrying marker, after every
\* completed heal it shows Running, and whenever no request is in flight it
\* shows Running exactly when health is OK.
AgentFollowsHealth ==
    /\ \A t \in Threads : FailDone(t) => workflows[1] = "Retrying..."
    /\ \A t \in Threads : HealDone(t) => workflows[1] = "Running"
    /\ AllIdle => (workflows[1] = "Running" <=> system_status = "OK")

StatusLabels == {"ss_agents", "ss_backup", "ss_state", "ss_last"}

\* C17: every step of get_system_status leaves `state` as it was, and in the
\* snapshot it completes, in any interleaving, agents reads "Running (4/4)"
\* exactly when system_state in the same snapshot is OK.
SnapshotAgentsMatchState ==
    [][\A t \in Threads :
         (pc[t] \in StatusLabels /\ pc'[t] # pc[t])
           => /\ UNCHANGED <<tracker, last_backup>>
              /\ pc'[t] = "ss_done"
                   => (Snapshot(t)'.agents = "Running (4/4)"
                         <=> Snapshot(t)'.system_state = "OK")]_vars

\* What the last catalog request is answered when load_catalog() gives data.
AnswerFrom(data) ==
    CASE answer.op = "get_faculties" -> FacultiesAnswer(data)
      [] answer.op = "get_departments" -> DepartmentsAnswer(data, answer.id)
      [] answer.op = "get_scope_kpis" -> ScopeAnswer(data, answer.scope, answer.id)
      [] OTHER -> NoAnswer

\* C18: the catalog file is read at most once in the life of the process,
\* whether the first load succeeded or failed, and once the first load has
\* failed every later request gets the no-catalog answer.
LoadedAtMostOnce ==
    /\ fileReads <= 1
    /\ firstLoad = "failed" => answer = AnswerFrom(None)

\* list is the {id, name, kpis} of nodes, one for one and in order.
ListsInOrder(list, nodes) ==
    /\ Len(list) = Len(nodes)
    /\ \A j \in 1..Len(nodes) :
         /\ list[j].id = nodes[j].id
         /\ list[j].name = nodes[j].name
         /\ list[j].kpis = nodes[j].kpis

\* C19: get_faculties and get_departments never fail, whatever CATALOG_PATH
\* holds and whatever faculty id is asked for: get_faculties answers with the
\* catalog's faculties in order or, with no catalog, with the one fallback
\* record fine_arts; get_departments answers with the departments of a
\* faculty with that id, in order, or with the empty list when no faculty
\* has the id or no catalog is loaded.
ListsNeverFail ==
    /\ answer.op = "get_faculties"
         => /\ answer.status = "ok"
            /\ IF Truthy(catalog_cache)
                 THEN ListsInOrder(answer.list, catalog_cache.faculties)
                 ELSE answer.list = <<FallbackFaculty>>
    /\ answer.op = "get_departments"
         => /\ answer.status = "ok"
            /\ IF Truthy(catalog_cache) /\ ~NoFacultyHas(answer.id)
                 THEN \E i \in 1..Len(catalog_cache.faculties) :
                        /\ catalog_cache.faculties[i].id = answer.id
                        /\ ListsInOrder(answer.list, catalog_cache.faculties[i].departments)
                 ELSE answer.list = <<>>

\* C20: the step that completes a run_backup leaves last_backup naming the
\* file this call wrote, and no two completed run_backup calls of a process
\* have written the same file name.
BackupsDistinct ==
    [][\A t \in Threads :
         (pc[t] # DoneLabel("run_backup") /\ pc'[t] = DoneLabel("run_backup"))
           => /\ last_backup'.file = loc[t].file
              /\ \A f \in Seconds : backupCalls'[f] <= 1]_vars

\* The position of the most recent Pending failure record of a log.
FirstPending(log) ==
    CHOOSE k \in 1..Len(log) :
        IsPendingFailure(log[k]) /\ \A j \in 1..(k - 1) : ~IsPendingFailure(log[j])

\* The time a heal on thread t can measure between its start and its end.
Elapsed(t) ==
    IF pc[t] = DoneLabel("self_heal") THEN HealDurations
    ELSE MinRestartMs..(MinRestartMs + HealJitter)

\* C21: a heal accepted, with no other request beside it, in a state whose
\* log holds a Pending failure record changes exactly the most recent such
\* record: its result becomes Recovered/Resolved and its duration_ms the time
\* the heal measured; the log's other records, its length and its order are
\* as before, and last_incident is the resolved summary.
HealMarksMostRecentPending ==
    \A t \in Threads :
        (HealDone(t) /\ \E k \in 1..Len(loc[t].pre.incidents) :
                           IsPendingFailure(loc[t].pre.incidents[k]))
          => LET before == loc[t].pre.incidents
                 k == FirstPending(before)
             IN /\ Len(incidents) = Len(before)
                /\ \A j \in 1..Len(before) : incidents[j].id = before[j].id
                /\ \A j \in (1..Len(before)) \ {k} : incidents[j] = before[j]
                /\ incidents[k].result \in {"Recovered", "Resolved"}
                /\ incidents[k].duration_ms \in Elapsed(t)
                /\ incidents[k] = [before[k] EXCEPT !.result = incidents[k].result,
                                                    !.duration_ms = incidents[k].duration_ms]
                /\ last_incident \in {"System Recovered", "Resolved: Latency Spike"}

\* No fail or heal is in flight: every thread is idle or runs a read.
NoTransitionInFlight ==
    \A t \in Threads :
        Idle(t) \/ pc[t] \in StatusLabels \cup {"ss_done", "gi_return", "gi_done"}

\* C22: whenever no fail or heal is in flight and health is OK, the incident
\* log holds no record with result Pending.
NoPendingWhenOk ==
    (NoTransitionInFlight /\ system_status = "OK") => ~HasPending(incidents)

\* In a run of two requests, both unanswered, the thread pool gave thread 1
\* the first and thread 2 the second: here a heal that began first, on
\* thread h, runs its last statement while the fail on thread f, which began
\* after it, has completed.
HealEndsAfterFail(h, f) ==
    /\ h = 1 /\ f = 2
    /\ opCount = 2
    /\ FailDone(f)
    /\ ~HealDone(h) /\ HealDone(h)'
ResultOf(log, id) ==
    IF id \in Ids(log) THEN (CHOOSE k \in 1..Len(log) : log[k].id = id) ELSE 0

FailHealLabels ==
    {"sf_status", "sf_last", "sf_agent",
     "sh_healing", "sh_ok", "sh_insert", "sh_len", "sh_pop", "sh_last", "sh_agent",
     "rf_status", "rf_insert", "rf_len", "rf_pop", "rf_last",
     "rh_healing", "rh_ok", "rh_scan", "rh_result", "rh_duration", "rh_insert",
     "rh_last", "rh_agent"}
RunBackupLabels == {"rb_name", "rb_open", "rb_close", "rb_size", "rb_state"}
ReadLabels == StatusLabels \cup {"gi_return", "gh_read", "os_read", "bs_read", "vb_read", "vb_check"}

\* Thread t takes a step of the handler it runs.
Moves(t) == pc'[t] # pc[t] \/ loc'[t] # loc[t]

\* C24: a step of a fail or a heal leaves last_backup as it was; a step of
\* run_backup leaves health, last_incident, the incident log and the
\* workflows as they were; no step changes the number of workflows, 4, or
\* any workflow but the first; and a step of a read (system status, health,
\* incident list, backup status, verify_backup, orchestrator status) or a
\* catalog lookup changes no field of `state`.
FrameConditions ==
    [][/\ \A t \in Threads :
            /\ (pc[t] \in FailHealLabels /\ Moves(t)) => UNCHANGED last_backup
            /\ (pc[t] \in RunBackupLabels /\ Moves(t)) => UNCHANGED tracker
            /\ (pc[t] \in ReadLabels /\ Moves(t)) => UNCHANGED <<tracker, last_backup>>
       /\ Len(workflows') = 4
       /\ \A i \in 2..4 : workflows'[i] = workflows[i]
       /\ <<catalog_cache, answer, fileReads, firstLoad>>' # <<catalog_cache, answer, fileReads, firstLoad>>
            => UNCHANGED <<tracker, last_backup>>]_vars

\* C24 witness: a fail, a run_backup and a catalog lookup have all run, each
\* leaving its mark on its own part of the state.
FailBackupAndLookupDone ==
    /\ AllIdle
    /\ system_status = "DEGRADED"
    /\ workflows[1] = "Retrying..."
    /\ last_backup.file # NoFile
    /\ answer.op # "None"
====
